---- MODULE Spec2Model ----
(***************************************************************************)
(* Model of the plate viewer: App's state (shape, textureUrl), the Plate   *)
(* component's memoised plateDims and geometry, the cover-fit effect on    *)
(* the top texture, and the meshes the geometry builder produces           *)
(* (THREE.LatheGeometry for the round plate, THREE.BoxGeometry slumped     *)
(* for the square and rectangular ones).                                   *)
(*                                                                         *)
(* Numbers.  Aspect ratios, plate dimensions and the texture transform are *)
(* extended rationals <<n, d>> (d > 0 in lowest terms; <<1,0>> and         *)
(* <<-1,0>> the infinities, <<0,0>> NaN), with JavaScript's rules for      *)
(* division by zero and comparison with NaN.  Mesh coordinates are fixed   *)
(* point integers, Unit to one world unit; Math.sin and Math.cos are a     *)
(* table at that resolution and Math.sqrt is the integer square root.      *)
(***************************************************************************)
EXTENDS Integers, Sequences, FiniteSets, TLC

VARIABLES shape, textureUrl, pc, topTexture, plate, lastFit, loop, history

vars == <<shape, textureUrl, pc, topTexture, plate, lastFit, loop, history>>

(***************************************************************************)
(* Bounds of the model.                                                    *)
(***************************************************************************)
\* image widths and heights range over 0..MaxImgDim (and "undefined")
MaxImgDim == 2
\* object URLs handed out by URL.createObjectURL
MaxUploads == 1
\* numerators and denominators of the aspect ratios of SpecCoverFit
MaxAspectTerm == 10
\* fixed-point rounding allowed between two evaluations of one UV
Tol == 1
\* changes of the selected shape
MaxChanges == 2

(***************************************************************************)
(* Integer helpers.                                                        *)
(***************************************************************************)
Abs(a) == IF a < 0 THEN -a ELSE a

Max(a, b) == IF a >= b THEN a ELSE b

Min(a, b) == IF a <= b THEN a ELSE b

RECURSIVE Gcd(_, _)
Gcd(a, b) == IF b = 0 THEN a ELSE Gcd(b, a % b)

\* a / b rounded to the nearest integer (b > 0)
DivRound(a, b) == (2 * a + b) \div (2 * b)

RECURSIVE SqrtIter(_, _)
SqrtIter(n, x) ==
  LET y == (x + (n \div x)) \div 2
  IN IF y >= x THEN x ELSE SqrtIter(n, y)

\* Math.sqrt on fixed-point squares: the integer square root
ISqrt(n) == IF n <= 0 THEN 0 ELSE SqrtIter(n, IF n < 32768 THEN n ELSE 32768)

(***************************************************************************)
(* Extended rationals: JavaScript numbers as far as the cover fit uses     *)
(* them.                                                                   *)
(***************************************************************************)
NaN == <<0, 0>>

Sign(a) == IF a > 0 THEN 1 ELSE IF a < 0 THEN -1 ELSE 0

Rat(n, d) ==
  IF d = 0 THEN <<Sign(n), 0>>
  ELSE LET g == Gcd(Abs(n), Abs(d))
           s == IF d < 0 THEN -1 ELSE 1
       IN <<(s * n) \div g, (s * d) \div g>>

Num(n) == <<n, 1>>

IsFinite(a) == a[2] # 0

IsNaN(a) == a = NaN

\* a / b
NumDiv(a, b) ==
  IF IsNaN(a) \/ IsNaN(b) THEN NaN
  ELSE IF ~IsFinite(a) THEN (IF ~IsFinite(b) THEN NaN
                             ELSE <<a[1] * (IF b[1] < 0 THEN -1 ELSE 1), 0>>)
  ELSE IF ~IsFinite(b) THEN Num(0)
  ELSE IF b[1] = 0 THEN <<Sign(a[1]), 0>>
  ELSE Rat(a[1] * b[2], a[2] * b[1])

\* a * b
NumMul(a, b) ==
  IF IsNaN(a) \/ IsNaN(b) THEN NaN
  ELSE IF ~IsFinite(a) \/ ~IsFinite(b)
       THEN <<Sign(a[1]) * Sign(b[1]), 0>>
  ELSE LET g1 == Gcd(Abs(a[1]), b[2])
           g2 == Gcd(Abs(b[1]), a[2])
       IN Rat((a[1] \div g1) * (b[1] \div g2), (a[2] \div g2) * (b[2] \div g1))

\* a - b
NumSub(a, b) ==
  IF IsNaN(a) \/ IsNaN(b) THEN NaN
  ELSE IF ~IsFinite(a) THEN (IF a = b THEN NaN ELSE a)
  ELSE IF ~IsFinite(b) THEN <<-b[1], 0>>
  ELSE Rat(a[1] * b[2] - b[1] * a[2], a[2] * b[2])

\* a + b
NumAdd(a, b) ==
  IF IsNaN(a) \/ IsNaN(b) THEN NaN
  ELSE IF ~IsFinite(a) THEN (IF ~IsFinite(b) /\ a # b THEN NaN ELSE a)
  ELSE IF ~IsFinite(b) THEN b
  ELSE Rat(a[1] * b[2] + b[1] * a[2], a[2] * b[2])

\* p / q > r / s for q > 0 and s > 0, by comparing the integer parts and
\* then the remainders, so that no product is formed
RECURSIVE FracGt(_, _, _, _)
FracGt(p, q, r, s) ==
  LET ip == p \div q
      ir == r \div s
      rp == p % q
      rr == r % s
  IN IF ip # ir THEN ip > ir
     ELSE IF rp = 0 THEN FALSE
     ELSE IF rr = 0 THEN TRUE
     ELSE FracGt(s, rr, q, rp)

\* a > b (false when either is NaN)
NumGt(a, b) ==
  IF IsNaN(a) \/ IsNaN(b) THEN FALSE
  ELSE IF ~IsFinite(a) THEN a[1] > 0 /\ a # b
  ELSE IF ~IsFinite(b) THEN b[1] < 0
  ELSE FracGt(a[1], a[2], b[1], b[2])

(***************************************************************************)
(* Fixed point.                                                            *)
(***************************************************************************)
\* fixed-point units per world unit
Unit == 100 * 100

\* a finite rational in fixed point
Fix(a) == DivRound(a[1] * Unit, a[2])

\* the first k decimal digits of r / q, as an integer (0 <= r < q)
RECURSIVE Digits(_, _, _, _)
Digits(r, q, k, acc) ==
  IF k = 0 THEN acc
  ELSE Digits((r * 10) % q, q, k - 1, acc * 10 + ((r * 10) \div q))

\* a finite rational a >= 0 with a large denominator in fixed point: the
\* value a typed array keeps of a double (Unit is 10^4: five digits, rounded)
FixWide(a) ==
  LET wide == a[2] >= 200000000
      p == IF wide THEN a[1] \div 16 ELSE a[1]
      q == IF wide THEN a[2] \div 16 ELSE a[2]
  IN (p \div q) * Unit + ((Digits(p % q, q, 5, 0) + 5) \div 10)

\* sin(k * pi / 64) * Unit for k = 0..32
SinTable ==
  <<0, 491, 980, 1467, 1951, 2430, 2903, 3369, 3827, 4276, 4714, 5141, 5556,
    5957, 6344, 6716, 7071, 7410, 7730, 8032, 8315, 8577, 8819, 9040, 9239,
    9415, 9569, 9700, 9808, 9892, 9952, 9988, 10000>>

\* Math.sin(k * pi / 64), in fixed point
SinU(k) ==
  LET m == k % 128
  IN IF m <= 32 THEN SinTable[m + 1]
     ELSE IF m <= 64 THEN SinTable[64 - m + 1]
     ELSE IF m <= 96 THEN -SinTable[m - 64 + 1]
     ELSE -SinTable[128 - m + 1]

\* Math.cos(k * pi / 64), in fixed point
CosU(k) == SinU(k + 32)

\* Math.sqrt(dx * dx + dy * dy)
Hypot(dx, dy) == ISqrt(dx * dx + dy * dy)

\* Math.cos(Math.atan2(z, x)): atan2(0, 0) is 0
CosAtan2(z, x) ==
  LET h == Hypot(x, z) IN IF h = 0 THEN Unit ELSE DivRound(x * Unit, h)

\* Math.sin(Math.atan2(z, x))
SinAtan2(z, x) ==
  LET h == Hypot(x, z) IN IF h = 0 THEN 0 ELSE DivRound(z * Unit, h)

\* THREE.MathUtils.lerp(x, y, t) with t = i / n
Lerp(x, y, i, n) == DivRound((n - i) * x + i * y, n)

(***************************************************************************)
(* Shapes and plate dimensions.                                            *)
(***************************************************************************)
ROUND == "round"

SQUARE == "square"

RECTANGULAR == "rectangular"

PlateShape == {ROUND, SQUARE, RECTANGULAR}

\* a value outside the enumeration, as an untyped caller can pass it
HEXAGONAL == "hexagonal"

AnyShape == PlateShape \cup {HEXAGONAL}

BASE_SIZE == Rat(35, 10)

thickness == Fix(Rat(5, 100))

plateDims(s) ==
  IF s = RECTANGULAR
  THEN [width  |-> NumMul(BASE_SIZE, Rat(16, 10)),
        height |-> NumMul(BASE_SIZE, Rat(9, 10))]
  ELSE [width |-> BASE_SIZE, height |-> BASE_SIZE]

(***************************************************************************)
(* The round plate: profile, revolve, hybrid UVs, groups.                  *)
(***************************************************************************)
radius == Fix(NumDiv(BASE_SIZE, Num(2)))

rimHeight == Fix(Rat(15, 100))

radialSegments == 128

topSegments == 64

rimSteps == 8

bottomSegments == 48

\* the centre-pole epsilon, 0.001
epsilon == Fix(Rat(1, 1000))

\* x of the i-th top sample: Math.max(t * radius, 0.001)
TopX(i) == Max(DivRound(i * radius, topSegments), epsilon)

\* A. top surface profile, i = 0..topSegments
TopPoint(i) ==
  [x |-> TopX(i),
   y |-> DivRound(i * i * rimHeight, topSegments * topSegments)]

\* TopUVRadius without the epsilon clamp: uvRadii.push(t * radius)
TopUVRadiusUnclamped(i) == DivRound(i * radius, topSegments)

\* UV radius pushed for the i-th top sample
TopUVRadius(i) == TopX(i)

topY == rimHeight

bottomY == rimHeight - thickness

\* B. rim point, i = 1..rimSteps: bulge = sin(t * PI) * 0.0025
RimPoint(i) ==
  [x |-> radius + DivRound(SinU((64 * i) \div rimSteps) * 25, Unit),
   y |-> Lerp(topY, bottomY, i, rimSteps)]

\* currentPos.distanceTo(lastPos)
DistanceTo(p, q) == Hypot(p.x - q.x, p.y - q.y)

\* accumulatedRimDist after the i-th rim step (lastPos starts at the last
\* top point)
RECURSIVE accumulatedRimDist(_)
accumulatedRimDist(i) ==
  IF i = 0 THEN 0
  ELSE accumulatedRimDist(i - 1)
       + DistanceTo(RimPoint(i),
                    IF i = 1 THEN TopPoint(topSegments) ELSE RimPoint(i - 1))

\* the UV radius of a rim point taken from its x, as on the top surface
RimUVRadiusByX(i) == RimPoint(i).x

RimUVRadius(i) == radius + accumulatedRimDist(i)

\* C. bottom surface point, i = 0..bottomSegments
BottomPoint(i) ==
  LET x == Lerp(radius, epsilon, i, bottomSegments)
      q == DivRound(x * Unit, radius)
      curveY == DivRound(DivRound(q * q, Unit) * rimHeight, Unit)
  IN [x |-> x, y |-> curveY - thickness]

\* BottomUVRadius without the 0.1 pushed beyond the rim
BottomUVRadiusNoMargin(i) ==
  radius + accumulatedRimDist(rimSteps) + (radius - BottomPoint(i).x)

\* uvRadii.push(radius + accumulatedRimDist + (radius - x) + 0.1)
BottomUVRadius(i) ==
  radius + accumulatedRimDist(rimSteps) + (radius - BottomPoint(i).x)
  + Fix(Rat(1, 10))

\* the profile handed to the revolve, in push order
points ==
  [i \in 1..(topSegments + 1) |-> TopPoint(i - 1)]
  \o [i \in 1..rimSteps |-> RimPoint(i)]
  \o [i \in 1..(bottomSegments + 1) |-> BottomPoint(i - 1)]

\* the UV radius pushed with each profile point
uvRadii ==
  [i \in 1..(topSegments + 1) |-> TopUVRadius(i - 1)]
  \o [i \in 1..rimSteps |-> RimUVRadius(i)]
  \o [i \in 1..(bottomSegments + 1) |-> BottomUVRadius(i - 1)]

maxUVRadius == radius + accumulatedRimDist(rimSteps)

diameterUV == maxUVRadius * 2

\* topSegments / (topSegments + rimSteps + bottomSegments)
topSurfaceRatio == Rat(topSegments, topSegments + rimSteps + bottomSegments)

indicesPerRing == radialSegments * 6

splitSegmentIndex == topSegments + rimSteps

indexSplit == splitSegmentIndex * indicesPerRing

\* the count of addGroup(indexSplit, Infinity, 1)
Infinity == 2147483647

\* geo.clearGroups(); geo.addGroup(0, indexSplit, 0);
\* geo.addGroup(indexSplit, Infinity, 1)
RoundGroups ==
  <<[start |-> 0, count |-> indexSplit, materialIndex |-> 0],
    [start |-> indexSplit, count |-> Infinity, materialIndex |-> 1]>>

\* new THREE.LatheGeometry(points, radialSegments), its UVs rewritten and
\* its groups set.  The attribute arrays are functions of these fields (see
\* the accessors below).
RoundGeometry ==
  [type |-> "LatheGeometry", points |-> points, segments |-> radialSegments,
   uvRadii |-> uvRadii, diameterUV |-> diameterUV, groups |-> RoundGroups]

(***************************************************************************)
(* THREE.LatheGeometry: vertices are pushed angular step by angular step   *)
(* (i = 0..segments), each step holding every profile point                *)
(* (j = 0..points.length - 1), so vertex k has i = k div n and j = k mod n.*)
(* Faces are pushed in the same order of loops: for each angular segment,  *)
(* for each profile segment, the two triangles (a, b, d) and (c, d, b).    *)
(***************************************************************************)
NPoints(geo) == Len(geo.points)

\* geo.attributes.position.count
PositionCount(geo) == (geo.segments + 1) * NPoints(geo)

\* geo.index.count
IndexCount(geo) == geo.segments * (NPoints(geo) - 1) * 6

\* the profile index and angular step of vertex k
RingOf(geo, k) == k % NPoints(geo)

StepOf(geo, k) == k \div NPoints(geo)

\* phi = i * (1 / segments) * 2 PI, in units of PI / 64
Phi(geo, i) == (i * 128) \div geo.segments

\* position of vertex k: (points[j].x * sin(phi), points[j].y,
\* points[j].x * cos(phi))
LathePosition(geo, k) ==
  LET p == geo.points[RingOf(geo, k) + 1]
      phi == Phi(geo, StepOf(geo, k))
  IN [x |-> DivRound(p.x * SinU(phi), Unit),
      y |-> p.y,
      z |-> DivRound(p.x * CosU(phi), Unit)]

\* the v coordinate LatheGeometry writes: j / (points.length - 1)
OriginalV(geo, k) == Rat(RingOf(geo, k), NPoints(geo) - 1)

\* index buffer entry p (0-based)
LatheIndex(geo, p) ==
  LET n == NPoints(geo)
      quad == p \div 6
      i == quad \div (n - 1)
      j == quad % (n - 1)
      base == j + i * n
      a == base
      b == base + n
      c == base + n + 1
      d == base + 1
  IN <<a, b, d, c, d, b>>[(p % 6) + 1]

(***************************************************************************)
(* D. the hybrid UV loop.                                                  *)
(***************************************************************************)
\* topSurfaceRatio + 0.005
topSurfaceLimit == NumAdd(topSurfaceRatio, Rat(5, 1000))

\* originalV <= topSurfaceRatio + 0.005
TakesPlanar(originalV) == ~NumGt(originalV, topSurfaceLimit)

\* Math.round(a) for a finite rational
Round(a) == (2 * a[1] + a[2]) \div (2 * a[2])

\* RingIndex scaled by the number of profile segments of the three regions
RingIndexBySegments(geo, originalV) ==
  LET totalProfilePoints == Len(geo.uvRadii)
      ringIndex == Round(NumMul(originalV,
                     Num(topSegments + rimSteps + bottomSegments)))
  IN Max(0, Min(ringIndex, totalProfilePoints - 1))

\* ringIndex, clamped to [0, totalProfilePoints - 1]
RingIndex(geo, originalV) ==
  LET totalProfilePoints == Len(geo.uvRadii)
      ringIndex == Round(NumMul(originalV, Num(totalProfilePoints - 1)))
  IN Max(0, Min(ringIndex, totalProfilePoints - 1))

\* PlanarUV normalised by the UV radius instead of the UV diameter
PlanarUVByRadius(geo, pos) ==
  [u |-> DivRound(pos.x * Unit, geo.diameterUV \div 2) + Unit \div 2,
   v |-> DivRound(pos.z * Unit, geo.diameterUV \div 2) + Unit \div 2]

\* 1. top surface: u = x / diameterUV + 0.5, v = z / diameterUV + 0.5
PlanarUV(geo, pos) ==
  [u |-> DivRound(pos.x * Unit, geo.diameterUV) + Unit \div 2,
   v |-> DivRound(pos.z * Unit, geo.diameterUV) + Unit \div 2]

\* 2. rim and bottom: rUV = uvRadii[ringIndex], angle = atan2(z, x)
PolarUV(geo, pos, ringIndex) ==
  LET rUV == geo.uvRadii[ringIndex + 1]
  IN [u |-> DivRound(DivRound(rUV * CosAtan2(pos.z, pos.x), Unit) * Unit,
                     geo.diameterUV) + Unit \div 2,
      v |-> DivRound(DivRound(rUV * SinAtan2(pos.z, pos.x), Unit) * Unit,
                     geo.diameterUV) + Unit \div 2]

\* the UV the loop writes for vertex k
LatheUV(geo, k) ==
  LET pos == LathePosition(geo, k)
      originalV == OriginalV(geo, k)
  IN IF TakesPlanar(originalV)
     THEN PlanarUV(geo, pos)
     ELSE PolarUV(geo, pos, RingIndex(geo, originalV))

(***************************************************************************)
(* The square and rectangular plates: THREE.BoxGeometry, slumped.          *)
(***************************************************************************)
segmentsX == 64

segmentsZ == 64

\* heightSegments of new THREE.BoxGeometry(width, thickness, height, 64, 2, 64)
segmentsY == 2

\* liftHeight, 0.02 for the rectangular platter and 0.035 otherwise
liftHeight(s) == IF s = RECTANGULAR THEN Fix(Rat(2, 100)) ELSE Fix(Rat(35, 1000))

\* BoxGeometry builds its faces in the order px, nx, py, ny, pz, nz; face f
\* is a gridX x gridY plane of 6 indices per cell and is material group f.
BoxFaceIndexCount(f) ==
  IF f \in {0, 1} THEN segmentsZ * segmentsY * 6
  ELSE IF f \in {2, 3} THEN segmentsX * segmentsZ * 6
  ELSE segmentsX * segmentsY * 6

RECURSIVE BoxGroupStart(_)
BoxGroupStart(f) ==
  IF f = 0 THEN 0 ELSE BoxGroupStart(f - 1) + BoxFaceIndexCount(f - 1)

\* the groups buildPlane adds: addGroup(groupStart, groupCount, materialIndex)
BoxGroups ==
  [i \in 1..6 |-> [start |-> BoxGroupStart(i - 1),
                   count |-> BoxFaceIndexCount(i - 1),
                   materialIndex |-> i - 1]]

BoxGeometry(s, dims) ==
  LET width == Fix(dims.width)
      height == Fix(dims.height)
      minDim == Min(width, height)
  IN [type |-> "BoxGeometry", width |-> width, height |-> thickness,
      depth |-> height, flatRadius |-> DivRound((minDim \div 2) * 60, 100),
      minDim |-> minDim, liftHeight |-> liftHeight(s), groups |-> BoxGroups]

\* the planes buildPlane makes for face f: gridX x gridY cells
BoxGridX(f) == IF f \in {0, 1} THEN segmentsZ ELSE segmentsX

BoxGridY(f) == IF f \in {2, 3} THEN segmentsZ ELSE segmentsY

BoxFaceVertexCount(f) == (BoxGridX(f) + 1) * (BoxGridY(f) + 1)

RECURSIVE BoxVertexStart(_)
BoxVertexStart(f) ==
  IF f = 0 THEN 0 ELSE BoxVertexStart(f - 1) + BoxFaceVertexCount(f - 1)

\* positionAttribute.count of the box
BoxPositionCount == BoxVertexStart(6)

\* the face whose plane holds vertex k
BoxFaceOf(k) == CHOOSE f \in 0..5 : BoxVertexStart(f) <= k /\ k < BoxVertexStart(f + 1)

\* ix * size / grid - size / 2, the coordinate of grid line ix (rounded
\* away from zero, so that mirrored grid lines have mirrored coordinates)
GridCoord(ix, size, grid) ==
  LET n == 2 * ix * size - grid * size
  IN IF n >= 0 THEN DivRound(n, 2 * grid) ELSE -DivRound(-n, 2 * grid)

\* vertex k of the box as buildPlane places it (before the slump)
BoxPosition(geo, k) ==
  LET f == BoxFaceOf(k)
      local == k - BoxVertexStart(f)
      ix == local % (BoxGridX(f) + 1)
      iy == local \div (BoxGridX(f) + 1)
      W == geo.width
      H == geo.height
      D == geo.depth
  IN IF f = 0 THEN [x |-> W \div 2, y |-> -GridCoord(iy, H, segmentsY),
                    z |-> -GridCoord(ix, D, segmentsZ)]
     ELSE IF f = 1 THEN [x |-> -(W \div 2), y |-> -GridCoord(iy, H, segmentsY),
                         z |-> GridCoord(ix, D, segmentsZ)]
     ELSE IF f = 2 THEN [x |-> GridCoord(ix, W, segmentsX), y |-> H \div 2,
                         z |-> GridCoord(iy, D, segmentsZ)]
     ELSE IF f = 3 THEN [x |-> GridCoord(ix, W, segmentsX), y |-> -(H \div 2),
                         z |-> -GridCoord(iy, D, segmentsZ)]
     ELSE IF f = 4 THEN [x |-> GridCoord(ix, W, segmentsX),
                         y |-> -GridCoord(iy, H, segmentsY), z |-> D \div 2]
     ELSE [x |-> -GridCoord(ix, W, segmentsX),
           y |-> -GridCoord(iy, H, segmentsY), z |-> -(D \div 2)]

\* entry p of the box's index buffer: cell (ix, iy) of a face pushes
\* (a, b, d) and (b, c, d)
BoxIndex(geo, p) ==
  LET f == CHOOSE g \in 0..5 : BoxGroupStart(g) <= p /\ p < BoxGroupStart(g + 1)
      local == p - BoxGroupStart(f)
      cell == local \div 6
      ix == cell % BoxGridX(f)
      iy == cell \div BoxGridX(f)
      gridX1 == BoxGridX(f) + 1
      a == BoxVertexStart(f) + ix + gridX1 * iy
      b == BoxVertexStart(f) + ix + gridX1 * (iy + 1)
      c == BoxVertexStart(f) + (ix + 1) + gridX1 * (iy + 1)
      d == BoxVertexStart(f) + (ix + 1) + gridX1 * iy
  IN <<a, b, d, b, c, d>>[(local % 6) + 1]

\* Lift with the distance from the centre, not from the flat zone, normalised
LiftFromCentre(geo, dist) ==
  LET normalizedDist == Rat(dist, (geo.minDim \div 2) - geo.flatRadius)
  IN NumMul(NumMul(normalizedDist, normalizedDist), Rat(geo.liftHeight, Unit))

\* (dist - flatRadius) / ((minDim / 2) - flatRadius)
NormalizedDist(geo, dist) ==
  Rat(dist - geo.flatRadius, (geo.minDim \div 2) - geo.flatRadius)

\* the lift of a vertex at dist > flatRadius: normalizedDist^2 * liftHeight
Lift(geo, dist) ==
  LET normalizedDist == NormalizedDist(geo, dist)
  IN NumMul(NumMul(normalizedDist, normalizedDist), Rat(geo.liftHeight, Unit))

\* AddedLift for the vertices above the middle of the box only
AddedLiftAboveMiddle(geo, v) ==
  LET dist == Hypot(v.x, v.z)
  IN IF dist > geo.flatRadius /\ v.y > 0 THEN Lift(geo, dist) ELSE Num(0)

\* the lift the slump loop adds to a vertex at (x, z)
AddedLift(geo, v) ==
  LET dist == Hypot(v.x, v.z)
  IN IF dist > geo.flatRadius THEN Lift(geo, dist) ELSE Num(0)

\* the body of the slump loop on one vertex: setXYZ(i, x, y + lift, z)
SlumpVertex(geo, v) ==
  [x |-> v.x, y |-> v.y + FixWide(AddedLift(geo, v)), z |-> v.z]

\* a builder whose mesh depends on the image that is loaded
geometryReadingTexture(s, dims) ==
  LET geo == IF s = ROUND THEN RoundGeometry ELSE BoxGeometry(s, dims)
  IN IF topTexture.image.present THEN [geo EXCEPT !.groups = <<>>] ELSE geo

\* the geometry useMemo: the lathe for ROUND, the slumped box for
\* everything else
geometry(s, dims) == IF s = ROUND THEN RoundGeometry ELSE BoxGeometry(s, dims)

\* geometry.index.count
GeometryIndexCount(geo) ==
  IF geo.type = "LatheGeometry" THEN IndexCount(geo)
  ELSE BoxGroupStart(6)

(***************************************************************************)
(* The materials of the mesh element.                                      *)
(***************************************************************************)
glassTopMaterial == "glassTop"

goldBackMaterial == "goldBack"

\* the materials with the pattern on the bottom slot of the box
MaterialsPatternOnBottom(s) ==
  IF s = ROUND THEN <<glassTopMaterial, goldBackMaterial>>
  ELSE <<goldBackMaterial, goldBackMaterial, goldBackMaterial,
         glassTopMaterial, goldBackMaterial, goldBackMaterial>>

\* the mesh's material array: attach="material-n" fills slot n (entry n + 1)
Materials(s) ==
  IF s = ROUND THEN <<glassTopMaterial, goldBackMaterial>>
  ELSE <<goldBackMaterial, goldBackMaterial, glassTopMaterial,
         goldBackMaterial, goldBackMaterial, goldBackMaterial>>

\* entry p of the geometry's index buffer
GeometryIndex(geo, p) ==
  IF geo.type = "LatheGeometry" THEN LatheIndex(geo, p) ELSE BoxIndex(geo, p)

\* the group whose range holds index position p
GroupAt(geo, p) ==
  geo.groups[CHOOSE g \in 1..Len(geo.groups) :
               /\ geo.groups[g].start <= p
               /\ \/ geo.groups[g].count = Infinity
                  \/ p < geo.groups[g].start + geo.groups[g].count]

(***************************************************************************)
(* The cover fit.                                                          *)
(***************************************************************************)
\* JavaScript truthiness of a number (undefined reads as NaN here)
Truthy(a) == ~IsNaN(a) /\ a # Num(0)

\* ImgAspect without the guard on the image and its dimensions
ImgAspectUnguarded(img) == NumDiv(img.width, img.height)

\* let imgAspect = 1; if (img && img.width && img.height) imgAspect = w / h
ImgAspect(img) ==
  IF img.present /\ Truthy(img.width) /\ Truthy(img.height)
  THEN NumDiv(img.width, img.height)
  ELSE Num(1)

PlateAspect(dims) == NumDiv(dims.width, dims.height)

\* CoverFit whose wide branch leaves the offset at the full margin
CoverFitWideOffsetNotHalved(plateAspect, imgAspect) ==
  IF NumGt(plateAspect, imgAspect)
  THEN LET scaleFactor == NumDiv(imgAspect, plateAspect)
       IN [repeat |-> <<Num(1), scaleFactor>>,
           offset |-> <<Num(0), NumSub(Num(1), scaleFactor)>>]
  ELSE LET scaleFactor == NumDiv(plateAspect, imgAspect)
       IN [repeat |-> <<scaleFactor, Num(1)>>,
           offset |-> <<NumDiv(NumSub(Num(1), scaleFactor), Num(2)), Num(0)>>]

\* CoverFit whose else branch scales the vertical axis
CoverFitTallOnVerticalAxis(plateAspect, imgAspect) ==
  IF NumGt(plateAspect, imgAspect)
  THEN LET scaleFactor == NumDiv(imgAspect, plateAspect)
       IN [repeat |-> <<Num(1), scaleFactor>>,
           offset |-> <<Num(0), NumDiv(NumSub(Num(1), scaleFactor), Num(2))>>]
  ELSE LET scaleFactor == NumDiv(plateAspect, imgAspect)
       IN [repeat |-> <<Num(1), scaleFactor>>,
           offset |-> <<Num(0), NumDiv(NumSub(Num(1), scaleFactor), Num(2))>>]

\* CoverFit with the scale factors inverted (a contain fit)
CoverFitInverted(plateAspect, imgAspect) ==
  IF NumGt(plateAspect, imgAspect)
  THEN LET scaleFactor == NumDiv(plateAspect, imgAspect)
       IN [repeat |-> <<Num(1), scaleFactor>>,
           offset |-> <<Num(0), NumDiv(NumSub(Num(1), scaleFactor), Num(2))>>]
  ELSE LET scaleFactor == NumDiv(imgAspect, plateAspect)
       IN [repeat |-> <<scaleFactor, Num(1)>>,
           offset |-> <<NumDiv(NumSub(Num(1), scaleFactor), Num(2)), Num(0)>>]

\* the repeat and offset the effect sets
CoverFit(plateAspect, imgAspect) ==
  IF NumGt(plateAspect, imgAspect)
  THEN LET scaleFactor == NumDiv(imgAspect, plateAspect)
       IN [repeat |-> <<Num(1), scaleFactor>>,
           offset |-> <<Num(0), NumDiv(NumSub(Num(1), scaleFactor), Num(2))>>]
  ELSE LET scaleFactor == NumDiv(plateAspect, imgAspect)
       IN [repeat |-> <<scaleFactor, Num(1)>>,
           offset |-> <<NumDiv(NumSub(Num(1), scaleFactor), Num(2)), Num(0)>>]

(***************************************************************************)
(* State.                                                                  *)
(***************************************************************************)
\* a width or height: 0..MaxImgDim, or missing (undefined)
ImgDims == {NaN} \cup {Num(w) : w \in 0..MaxImgDim}

NoImage == [present |-> FALSE, width |-> NaN, height |-> NaN]

\* what texture.image can be once the loader resolves
Images ==
  {NoImage} \cup
  {[present |-> TRUE, width |-> w, height |-> h] : w \in ImgDims, h \in ImgDims}

\* a THREE.Texture as the loader returns it: repeat (1, 1), offset (0, 0)
NewTexture(url, img) ==
  [url |-> url, image |-> img, repeat |-> <<Num(1), Num(1)>>,
   offset |-> <<Num(0), Num(0)>>, needsUpdate |-> FALSE]

NoGeometry == [type |-> "none"]

\* the Plate component before its first committed render
Unmounted ==
  [mounted |-> FALSE, shape |-> "", plateDims |-> plateDims(""),
   geometry |-> NoGeometry, built |-> FALSE, texture |-> -1,
   effect |-> FALSE]

NoFit == [plateAspect |-> NaN, imgAspect |-> NaN]

\* the UV loop of the round builder before its first iteration on geo
StartLoop(geo) ==
  [geo |-> geo, i |-> 0, ring |-> 0, planar |-> FALSE, ringIndex |-> -1,
   uv |-> [u |-> 0, v |-> 0]]

\* no builder loop in progress
NoLoop == StartLoop(NoGeometry)

\* what has happened so far: how often the geometry callback ran, how often
\* the selected shape changed (early: before Plate first mounted), and the
\* mesh last built for each shape
NoHistory ==
  [builds |-> 0, changes |-> 0, early |-> 0,
   built |-> [s \in AnyShape |-> NoGeometry]]

\* the history after one more change of the selected shape, p being Plate
RecordChange(h, p) ==
  [h EXCEPT !.changes = @ + 1,
            !.early = IF p.mounted THEN @ ELSE @ + 1]

\* the history after a committed render p of Plate: p.built tells whether
\* the geometry callback ran in it
RecordRender(h, p) ==
  IF p.built
  THEN [h EXCEPT !.builds = @ + 1, !.built[p.shape] = p.geometry]
  ELSE h

\* Render with a geometry callback that runs in the first render only
RenderKeepingMesh(p, s, url) ==
  LET first == ~p.mounted
      dimsChanged == first \/ p.shape # s
      dims == IF dimsChanged THEN plateDims(s) ELSE p.plateDims
  IN [mounted |-> TRUE, shape |-> s, plateDims |-> dims,
      geometry |-> IF first THEN geometry(s, dims) ELSE p.geometry,
      built |-> first, texture |-> url,
      effect |-> first \/ dimsChanged \/ p.texture # url]

\* Render with the cover-fit effect depending on [topTexture] alone
RenderFitOnTextureOnly(p, s, url) ==
  LET first == ~p.mounted
      dimsChanged == first \/ p.shape # s
      dims == IF dimsChanged THEN plateDims(s) ELSE p.plateDims
      geoChanged == first \/ p.shape # s \/ dimsChanged
  IN [mounted |-> TRUE, shape |-> s, plateDims |-> dims,
      geometry |-> IF geoChanged THEN geometry(s, dims) ELSE p.geometry,
      built |-> geoChanged, texture |-> url,
      effect |-> first \/ p.texture # url]

\* Render with a geometry callback that runs on every render
RenderRebuildingAlways(p, s, url) ==
  LET first == ~p.mounted
      dimsChanged == first \/ p.shape # s
      dims == IF dimsChanged THEN plateDims(s) ELSE p.plateDims
  IN [mounted |-> TRUE, shape |-> s, plateDims |-> dims,
      geometry |-> geometry(s, dims),
      built |-> TRUE, texture |-> url,
      effect |-> first \/ dimsChanged \/ p.texture # url]

\* one render of Plate: the two useMemo hooks recompute when their
\* dependencies changed since the last committed render, and the cover-fit
\* effect is scheduled when one of [topTexture, plateDims] changed
Render(p, s, url) ==
  LET first == ~p.mounted
      dimsChanged == first \/ p.shape # s
      dims == IF dimsChanged THEN plateDims(s) ELSE p.plateDims
      geoChanged == first \/ p.shape # s \/ dimsChanged
  IN [mounted |-> TRUE, shape |-> s, plateDims |-> dims,
      geometry |-> IF geoChanged THEN geometry(s, dims) ELSE p.geometry,
      built |-> geoChanged, texture |-> url,
      effect |-> first \/ dimsChanged \/ p.texture # url]

\* App's useState initial values; Plate suspended in useTexture
Init ==
  /\ shape = ROUND
  /\ textureUrl = 0
  /\ pc = "loading"
  /\ topTexture = NewTexture(-1, NoImage)
  /\ plate = Unmounted
  /\ lastFit = NoFit
  /\ loop = NoLoop
  /\ history = NoHistory

\* useTexture resolves for the current URL: Plate renders and commits
TextureLoaded(img) ==
  /\ pc = "loading"
  /\ topTexture' = NewTexture(textureUrl, img)
  /\ plate' = Render(plate, shape, textureUrl)
  /\ history' = RecordRender(history, plate')
  /\ pc' = "effects"
  /\ UNCHANGED <<shape, textureUrl, lastFit, loop>>

\* the passive effects of the committed render: the cover fit
RunEffects ==
  /\ pc = "effects"
  /\ pc' = "idle"
  /\ plate' = [plate EXCEPT !.effect = FALSE]
  /\ IF plate.effect
     THEN LET imgAspect == ImgAspect(topTexture.image)
              plateAspect == PlateAspect(plate.plateDims)
              fit == CoverFit(plateAspect, imgAspect)
          IN /\ topTexture' = [topTexture EXCEPT !.repeat = fit.repeat,
                                                 !.offset = fit.offset,
                                                 !.needsUpdate = TRUE]
             /\ lastFit' = [plateAspect |-> plateAspect,
                            imgAspect |-> imgAspect]
     ELSE UNCHANGED <<topTexture, lastFit>>
  /\ UNCHANGED <<shape, textureUrl, loop, history>>

\* Controls' onShapeChange = setShape: same value bails out; otherwise App
\* re-renders, and Plate with it unless it is suspended
onShapeChange(s) ==
  /\ pc \in {"idle", "loading"}
  /\ IF s = shape
     THEN UNCHANGED vars
     ELSE /\ history.changes < MaxChanges
          /\ shape' = s
          /\ IF pc = "idle"
             THEN /\ plate' = Render(plate, s, textureUrl)
                  /\ history' = RecordRender(RecordChange(history, plate),
                                               plate')
                  /\ pc' = "effects"
             ELSE /\ history' = RecordChange(history, plate)
                  /\ UNCHANGED <<plate, pc>>
          /\ UNCHANGED <<textureUrl, topTexture, lastFit, loop>>

\* handleImageUpload: a chosen file gives a fresh object URL, and Plate
\* suspends until its texture is loaded
handleImageUpload(hasFile) ==
  /\ pc \in {"idle", "loading"}
  /\ IF hasFile
     THEN /\ textureUrl < MaxUploads
          /\ textureUrl' = textureUrl + 1
          /\ pc' = "loading"
          /\ UNCHANGED <<shape, topTexture, plate, lastFit, loop, history>>
     ELSE UNCHANGED vars

Next ==
  \/ \E img \in Images : TextureLoaded(img)
  \/ RunEffects
  \/ \E s \in PlateShape : onShapeChange(s)
  \/ \E hasFile \in BOOLEAN : handleImageUpload(hasFile)

Spec == Init /\ [][Next]_vars

\* Plate driven by a caller that is not held to the PlateShape enumeration
NextAnyShape ==
  \/ \E img \in Images : TextureLoaded(img)
  \/ RunEffects
  \/ \E s \in AnyShape : onShapeChange(s)
  \/ \E hasFile \in BOOLEAN : handleImageUpload(hasFile)

SpecAnyShape == Init /\ [][NextAnyShape]_vars

(***************************************************************************)
(* The cover fit as a function of two aspect ratios.                       *)
(***************************************************************************)
Aspects == {Rat(n, d) : n \in 1..MaxAspectTerm, d \in 1..MaxAspectTerm}

InitCoverFit ==
  /\ shape = ROUND
  /\ textureUrl = 0
  /\ pc = "fit"
  /\ topTexture = NewTexture(0, NoImage)
  /\ plate = Unmounted
  /\ lastFit \in [plateAspect : Aspects, imgAspect : Aspects]
  /\ loop = NoLoop
  /\ history = NoHistory

ApplyCoverFit ==
  /\ pc = "fit"
  /\ pc' = "fitted"
  /\ LET fit == CoverFit(lastFit.plateAspect, lastFit.imgAspect)
     IN topTexture' = [topTexture EXCEPT !.repeat = fit.repeat,
                                         !.offset = fit.offset,
                                         !.needsUpdate = TRUE]
  /\ UNCHANGED <<shape, textureUrl, plate, lastFit, loop, history>>

SpecCoverFit == InitCoverFit /\ [][ApplyCoverFit]_vars

(***************************************************************************)
(* The round builder's UV loop, one iteration a step: the state inside the *)
(* geometry useMemo after section C, with loop.i vertices rewritten, in    *)
(* the first render of Plate or in the render that follows the selection   *)
(* of ROUND while the square plate is shown; then the render commits.      *)
(***************************************************************************)
\* Plate showing the square plate on the placeholder texture, effects run
SquarePlate ==
  [Render(Render(Unmounted, ROUND, 0), SQUARE, 0) EXCEPT !.effect = FALSE]

\* the placeholder texture fitted to the square plate
SquareFit ==
  [plateAspect |-> PlateAspect(plateDims(SQUARE)),
   imgAspect |-> ImgAspect(NoImage)]

SquareTexture ==
  LET fit == CoverFit(SquareFit.plateAspect, SquareFit.imgAspect)
  IN [NewTexture(0, NoImage) EXCEPT !.repeat = fit.repeat,
                                    !.offset = fit.offset,
                                    !.needsUpdate = TRUE]

\* the history of that session when ROUND has been selected again
SquareHistory ==
  [builds |-> 2, changes |-> 2, early |-> 0,
   built |-> [s \in AnyShape |->
                IF s = ROUND THEN RoundGeometry
                ELSE IF s = SQUARE THEN SquarePlate.geometry
                ELSE NoGeometry]]

InitUVLoop ==
  /\ shape = ROUND
  /\ textureUrl = 0
  /\ pc = "uvLoop"
  /\ \/ /\ topTexture = NewTexture(0, NoImage)
        /\ plate = Unmounted
        /\ lastFit = NoFit
        /\ history = NoHistory
     \/ /\ topTexture = SquareTexture
        /\ plate = SquarePlate
        /\ lastFit = SquareFit
        /\ history = SquareHistory
  /\ loop = StartLoop(RoundGeometry)

\* for (let i = 0; i < posAttribute.count; i++) { ... uvAttribute.setXY }
UVLoopStep ==
  /\ pc = "uvLoop"
  /\ loop.i < PositionCount(loop.geo)
  /\ loop' = [geo |-> loop.geo, i |-> loop.i + 1,
              ring |-> RingOf(loop.geo, loop.i),
              planar |-> TakesPlanar(OriginalV(loop.geo, loop.i)),
              ringIndex |-> IF TakesPlanar(OriginalV(loop.geo, loop.i))
                            THEN -1
                            ELSE RingIndex(loop.geo,
                                           OriginalV(loop.geo, loop.i)),
              uv |-> LatheUV(loop.geo, loop.i)]
  /\ UNCHANGED <<shape, textureUrl, pc, topTexture, plate, lastFit, history>>

\* the callback returns geo and the render commits: <mesh geometry={geometry}>
CommitRender ==
  /\ pc = "uvLoop"
  /\ loop.i = PositionCount(loop.geo)
  /\ plate' = Render(plate, shape, textureUrl)
  /\ history' = RecordRender(history, plate')
  /\ pc' = "effects"
  /\ UNCHANGED <<shape, textureUrl, topTexture, lastFit, loop>>

NextUVLoop == UVLoopStep \/ CommitRender

SpecUVLoop == InitUVLoop /\ [][NextUVLoop]_vars

(***************************************************************************)
(* The renderer drawing the mesh of a mounted Plate, one triangle a step:  *)
(* each group's range of the index buffer with the material of the group's *)
(* slot.                                                                   *)
(***************************************************************************)
\* Plate first mounted with shape s on the placeholder texture, effects run
FirstPlate(s) == [Render(Unmounted, s, 0) EXCEPT !.effect = FALSE]

FirstFit(s) ==
  [plateAspect |-> PlateAspect(plateDims(s)), imgAspect |-> ImgAspect(NoImage)]

FirstTexture(s) ==
  LET fit == CoverFit(FirstFit(s).plateAspect, FirstFit(s).imgAspect)
  IN [NewTexture(0, NoImage) EXCEPT !.repeat = fit.repeat,
                                    !.offset = fit.offset,
                                    !.needsUpdate = TRUE]

\* the history of a session whose shape was chosen before the first mount
FirstHistory(s) ==
  LET n == IF s = ROUND THEN 0 ELSE 1
  IN [builds |-> 1, changes |-> n, early |-> n,
      built |-> [t \in AnyShape |->
                   IF t = s THEN FirstPlate(s).geometry ELSE NoGeometry]]

\* the triangle at index position p as the renderer draws it
DrawAt(geo, s, p) ==
  [geo |-> geo, p |-> p, group |-> GroupAt(geo, p),
   material |-> Materials(s)[GroupAt(geo, p).materialIndex + 1],
   verts |-> [n \in 1..3 |-> GeometryIndex(geo, p + n - 1)]]

InitDraw ==
  /\ shape \in PlateShape
  /\ textureUrl = 0
  /\ pc = "draw"
  /\ topTexture = FirstTexture(shape)
  /\ plate = FirstPlate(shape)
  /\ lastFit = FirstFit(shape)
  /\ loop = DrawAt(plate.geometry, shape, 0)
  /\ history = FirstHistory(shape)

DrawTriangle ==
  /\ pc = "draw"
  /\ loop.p + 3 < GeometryIndexCount(loop.geo)
  /\ loop' = DrawAt(loop.geo, plate.shape, loop.p + 3)
  /\ UNCHANGED <<shape, textureUrl, pc, topTexture, plate, lastFit, history>>

SpecDraw == InitDraw /\ [][DrawTriangle]_vars

(***************************************************************************)
(* The body of the box builder's slump loop on a top-face vertex placed    *)
(* at every distance from the centre up to the corner, one fixed-point     *)
(* unit a step.                                                            *)
(***************************************************************************)
BoxShapes == {SQUARE, RECTANGULAR}

\* the distance of the corner of the plate from its centre
CornerDist(geo) == Hypot(geo.width \div 2, geo.depth \div 2)

\* the top-face vertex at distance d along the x axis
ProbeVertex(geo, d) == [x |-> d, y |-> geo.height \div 2, z |-> 0]

\* the loop body applied at distance d; prev is the lift it added at the
\* distance before
SlumpAt(geo, d, prev) ==
  [geo |-> geo, d |-> d, before |-> ProbeVertex(geo, d),
   after |-> SlumpVertex(geo, ProbeVertex(geo, d)),
   lift |-> AddedLift(geo, ProbeVertex(geo, d)), prev |-> prev]

InitLift ==
  /\ shape \in BoxShapes
  /\ textureUrl = 0
  /\ pc = "slump"
  /\ topTexture = NewTexture(0, NoImage)
  /\ plate = Unmounted
  /\ lastFit = NoFit
  /\ loop = SlumpAt(BoxGeometry(shape, plateDims(shape)), 0, Num(0))
  /\ history = NoHistory

LiftStep ==
  /\ pc = "slump"
  /\ loop.d < CornerDist(loop.geo)
  /\ loop' = SlumpAt(loop.geo, loop.d + 1, loop.lift)
  /\ UNCHANGED <<shape, textureUrl, pc, topTexture, plate, lastFit, history>>

SpecLift == InitLift /\ [][LiftStep]_vars

(***************************************************************************)
(* The box builder's slump loop over the vertices of the box, one          *)
(* iteration a step: the state inside the geometry useMemo of the first    *)
(* render, with loop.i vertices written back.                              *)
(***************************************************************************)
\* iteration i of the loop: vertex i read, lifted and written back
SlumpIteration(geo, i) ==
  LET vertex == BoxPosition(geo, i)
      dist == Hypot(vertex.x, vertex.z)
  IN [geo |-> geo, i |-> i + 1, before |-> vertex,
      after |-> SlumpVertex(geo, vertex), dist |-> dist,
      normalizedDist |-> IF dist > geo.flatRadius
                         THEN NormalizedDist(geo, dist) ELSE Num(0),
      lift |-> AddedLift(geo, vertex)]

\* the loop before its first iteration
StartSlump(geo) ==
  [geo |-> geo, i |-> 0, before |-> BoxPosition(geo, 0),
   after |-> BoxPosition(geo, 0), dist |-> 0, normalizedDist |-> Num(0),
   lift |-> Num(0)]

InitSlumpLoop ==
  /\ shape \in BoxShapes
  /\ textureUrl = 0
  /\ pc = "slumpLoop"
  /\ topTexture = NewTexture(0, NoImage)
  /\ plate = Unmounted
  /\ lastFit = NoFit
  /\ loop = StartSlump(BoxGeometry(shape, plateDims(shape)))
  /\ history = RecordChange(NoHistory, plate)

\* for (let i = 0; i < positionAttribute.count; i++) { ... setXYZ }
SlumpLoopStep ==
  /\ pc = "slumpLoop"
  /\ loop.i < BoxPositionCount
  /\ loop' = SlumpIteration(loop.geo, loop.i)
  /\ UNCHANGED <<shape, textureUrl, pc, topTexture, plate, lastFit, history>>

SpecSlumpLoop == InitSlumpLoop /\ [][SlumpLoopStep]_vars

(***************************************************************************)
(* Properties.                                                             *)
(***************************************************************************)
IsLathe == plate.geometry.type = "LatheGeometry"

\* the region of the profile a point was pushed by: loop A, B or C
RegionOf(j) ==
  IF j <= topSegments THEN "top"
  ELSE IF j <= topSegments + rimSteps THEN "rim"
  ELSE "bottom"

\* a + b where Infinity absorbs
Plus(a, b) == IF a = Infinity \/ b = Infinity THEN Infinity ELSE a + b

RECURSIVE GroupCountSum(_, _)
GroupCountSum(groups, n) ==
  IF n = 0 THEN 0 ELSE Plus(GroupCountSum(groups, n - 1), groups[n].count)

\* C1: the round mesh has exactly
\* (N_top + N_rim + N_bottom + 1) * (radialSegments + 1) vertices, the profile
\* handed to the revolve having N_top + N_rim + N_bottom + 1 points.
C1_RoundVertexCount ==
  IsLathe =>
    /\ Len(plate.geometry.points) = topSegments + rimSteps + bottomSegments + 1
    /\ PositionCount(plate.geometry)
         = (topSegments + rimSteps + bottomSegments + 1) * (radialSegments + 1)

\* C2: the material groups of every built mesh are sorted by start, begin at
\* index 0, each begins where the previous one ends, and their counts sum to
\* the length of the index buffer.
C2_GroupsCoverIndexBuffer ==
  plate.mounted =>
    LET groups == plate.geometry.groups
    IN /\ groups[1].start = 0
       /\ \A i \in 1..(Len(groups) - 1) :
            groups[i + 1].start = Plus(groups[i].start, groups[i].count)
       /\ GroupCountSum(groups, Len(groups))
            = GeometryIndexCount(plate.geometry)

\* C3: in the round mesh every triangle whose indices lie in group 0 (below
\* (topSegments + rimSteps) * radialSegments * 6) joins rings of the top or
\* rim region, and every triangle of group 1 joins rings of the bottom
\* region.
C3_GroupsMatchRegions ==
  IsLathe =>
    \A p \in 0..(IndexCount(plate.geometry) - 1) :
      LET ring == RingOf(plate.geometry, LatheIndex(plate.geometry, p))
      IN IF p < (topSegments + rimSteps) * radialSegments * 6
         THEN RegionOf(ring) \in {"top", "rim"}
         ELSE RegionOf(ring) = "bottom"

\* C4: cover fit, wide branch: when plateAspect > imgAspect, scaleU = 1,
\* scaleV = imgAspect / plateAspect, offsetU = 0, offsetV = (1 - scaleV) / 2;
\* for 1.6 and 1.0 that is scaleV = 0.625 and offsetV = 0.1875.
C4_CoverFitWide ==
  (pc = "fitted" /\ NumGt(lastFit.plateAspect, lastFit.imgAspect)) =>
    /\ topTexture.repeat[1] = Num(1)
    /\ NumMul(topTexture.repeat[2], lastFit.plateAspect) = lastFit.imgAspect
    /\ topTexture.offset[1] = Num(0)
    /\ NumMul(topTexture.offset[2], Num(2))
         = NumSub(Num(1), topTexture.repeat[2])
    /\ (lastFit.plateAspect = Rat(16, 10) /\ lastFit.imgAspect = Num(1)) =>
         /\ topTexture.repeat[2] = Rat(625, 1000)
         /\ topTexture.offset[2] = Rat(1875, 10000)

C4_Witness ==
  /\ pc = "fitted"
  /\ lastFit.plateAspect = Rat(16, 10)
  /\ lastFit.imgAspect = Num(1)
  /\ topTexture.repeat = <<Num(1), Rat(5, 8)>>
  /\ topTexture.offset = <<Num(0), Rat(3, 16)>>

\* C5: cover fit, tall-or-equal branch: when plateAspect <= imgAspect,
\* scaleU = plateAspect / imgAspect, scaleV = 1, offsetU = (1 - scaleU) / 2,
\* offsetV = 0; for 0.9 and 1.0 that is scaleU = 0.9 and offsetU = 0.05, and
\* for equal aspects it is the identity.
C5_CoverFitTall ==
  (pc = "fitted" /\ ~NumGt(lastFit.plateAspect, lastFit.imgAspect)) =>
    /\ NumMul(topTexture.repeat[1], lastFit.imgAspect) = lastFit.plateAspect
    /\ topTexture.repeat[2] = Num(1)
    /\ NumMul(topTexture.offset[1], Num(2))
         = NumSub(Num(1), topTexture.repeat[1])
    /\ topTexture.offset[2] = Num(0)
    /\ (lastFit.plateAspect = Rat(9, 10) /\ lastFit.imgAspect = Num(1)) =>
         /\ topTexture.repeat[1] = Rat(9, 10)
         /\ topTexture.offset[1] = Rat(5, 100)
    /\ lastFit.plateAspect = lastFit.imgAspect =>
         /\ topTexture.repeat = <<Num(1), Num(1)>>
         /\ topTexture.offset = <<Num(0), Num(0)>>

C5_Witness ==
  /\ pc = "fitted"
  /\ lastFit.plateAspect = Rat(9, 10)
  /\ lastFit.imgAspect = Num(1)
  /\ topTexture.repeat = <<Rat(9, 10), Num(1)>>
  /\ topTexture.offset = <<Rat(1, 20), Num(0)>>

\* the image is missing, or its width or height is missing or zero
Degenerate(img) ==
  \/ ~img.present
  \/ img.width \in {NaN, Num(0)}
  \/ img.height \in {NaN, Num(0)}

\* C6: with a missing image or a missing or zero width or height the cover
\* fit uses imgAspect = 1, and the scale and offset it sets are finite
\* numbers, for every shape.
C6_DegenerateImageFallsBack ==
  /\ \A a \in {topTexture.repeat[1], topTexture.repeat[2],
               topTexture.offset[1], topTexture.offset[2]} : IsFinite(a)
  /\ (pc = "idle" /\ Degenerate(topTexture.image)) =>
       /\ lastFit.imgAspect = Num(1)
       /\ lastFit.plateAspect = PlateAspect(plateDims(shape))
       /\ topTexture.repeat
            = CoverFit(PlateAspect(plateDims(shape)), Num(1)).repeat

C6_Witness ==
  /\ pc = "idle"
  /\ shape = RECTANGULAR
  /\ topTexture.image.present
  /\ topTexture.image.width = Num(0)
  /\ topTexture.image.height = Num(0)
  /\ topTexture.needsUpdate
  /\ lastFit.imgAspect = Num(1)

\* C7: a shape selector other than ROUND, SQUARE or RECTANGULAR makes the
\* build fail and produces no mesh.
C7_UnrecognisedShapeFails ==
  (plate.mounted /\ plate.shape \notin PlateShape) =>
    plate.geometry = NoGeometry

\* C8: a vertex of the round mesh takes the planar branch if and only if it
\* was revolved from a top-region profile point (profile index 0..N_top).
C8_PlanarIffTopRegion ==
  loop.i > 0 => (loop.planar <=> RegionOf(loop.ring) = "top")

\* C9: every vertex of the round mesh that gets its UV from the planar
\* branch has 0 <= u <= 1 and 0 <= v <= 1.
C9_PlanarUVInUnitSquare ==
  (loop.i > 0 /\ loop.planar) =>
    /\ 0 <= loop.uv.u /\ loop.uv.u <= Unit
    /\ 0 <= loop.uv.v /\ loop.uv.v <= Unit

\* a planar vertex near the edge of the image: the boundary ring at a
\* quarter turn
C9_Witness ==
  /\ loop.planar
  /\ loop.ring = topSegments
  /\ loop.uv = PlanarUV(loop.geo, LathePosition(loop.geo, loop.i - 1))
  /\ loop.uv.u > (Unit * 9) \div 10
  /\ loop.uv.u <= Unit

\* C10: for every top-region profile index the stored UV radius is the
\* point's radial distance, and on the ring at the top/rim boundary the
\* planar and the polar formula give the same UV at every angular step.
C10_BoundaryRingContinuous ==
  IsLathe =>
    LET geo == plate.geometry
    IN /\ \A j \in 0..topSegments : geo.uvRadii[j + 1] = geo.points[j + 1].x
       /\ \A i \in 0..geo.segments :
            LET pos == LathePosition(geo, i * NPoints(geo) + topSegments)
                planar == PlanarUV(geo, pos)
                polar == PolarUV(geo, pos, topSegments)
            IN /\ Abs(planar.u - polar.u) <= Tol
               /\ Abs(planar.v - polar.v) <= Tol

C10_Witness ==
  /\ IsLathe
  /\ pc = "idle"
  /\ LET geo == plate.geometry
         pos == LathePosition(geo, (radialSegments \div 4) * NPoints(geo)
                                     + topSegments)
     IN /\ geo.uvRadii[topSegments + 1] = radius
        /\ PolarUV(geo, pos, topSegments).u > (Unit * 9) \div 10
        /\ Abs(PlanarUV(geo, pos).u - PolarUV(geo, pos, topSegments).u) <= Tol

\* C11: a vertex within flatRadius of the centre is left where it is; beyond
\* flatRadius the added lift grows strictly with the distance, all the way to
\* the corner, and it starts from 0 without a jump (less than one
\* fixed-point unit at the first distance beyond flatRadius)
C11_SlumpLift ==
  pc = "slump" /\ loop.d > 0 =>
    /\ loop.d <= loop.geo.flatRadius =>
         loop.lift = Num(0) /\ loop.after = loop.before
    /\ loop.d > loop.geo.flatRadius =>
         /\ NumGt(loop.lift, loop.prev)
         /\ loop.after.y >= loop.before.y
         /\ loop.after.x = loop.before.x /\ loop.after.z = loop.before.z
    /\ loop.d = loop.geo.flatRadius + 1 => FixWide(loop.lift) = 0

\* the corner of the rectangular platter, lifted
C11_Witness ==
  /\ pc = "slump"
  /\ shape = RECTANGULAR
  /\ loop.d = CornerDist(loop.geo)
  /\ loop.d > loop.geo.minDim \div 2
  /\ loop.after.y > loop.before.y

C13_BuildOncePerShapeChange ==
  plate.mounted /\ pc \in {"effects", "idle"} =>
    history.builds = 1 + (history.changes - history.early)

\* C13: the geometry callback runs exactly in the renders of Plate that are
\* its first or see a shape other than the one last rendered; in no other
\* step (an upload, the same shape selected again, a render for a new image
\* alone, the cover-fit effect) does it run or does the mesh change
C13_BuildPerRenderedShapeChange ==
  [][LET ran == pc' = "effects" /\ (~plate.mounted \/ shape' # plate.shape)
     IN /\ history'.builds = history.builds + (IF ran THEN 1 ELSE 0)
        /\ plate'.built = ran
           \/ (pc' # "effects" /\ plate'.built = plate.built)
        /\ ~ran => plate'.geometry = plate.geometry]_vars

\* a render for a new image alone, after the shape was changed and changed
\* back while the image was loading: the callback did not run
C13_Witness ==
  /\ pc = "effects"
  /\ plate.texture = 1
  /\ ~plate.built
  /\ history.changes - history.early >= 2
  /\ history.builds = 1

\* C14: once the effects of the latest render have run, the top texture's
\* repeat and offset are the cover fit of the selected shape's plate width
\* and height and of the loaded image's dimensions, and that fit was
\* computed from exactly these two aspects
C14_FitIsCurrent ==
  pc = "idle" =>
    LET plateAspect == PlateAspect(plateDims(shape))
        imgAspect == ImgAspect(topTexture.image)
        fit == CoverFit(plateAspect, imgAspect)
    IN /\ topTexture.repeat = fit.repeat
       /\ topTexture.offset = fit.offset
       /\ lastFit = [plateAspect |-> plateAspect, imgAspect |-> imgAspect]

\* an uploaded 2 x 1 image on the rectangular platter, selected after the
\* image was fitted to another shape
C14_Witness ==
  /\ pc = "idle"
  /\ shape = RECTANGULAR
  /\ topTexture.url = 1
  /\ topTexture.image = [present |-> TRUE, width |-> Num(2), height |-> Num(1)]
  /\ topTexture.repeat # <<Num(1), Num(1)>>
  /\ history.builds >= 2

SquareSessionReached ==
  /\ pc = "idle"
  /\ shape = SQUARE
  /\ plate = SquarePlate
  /\ topTexture = SquareTexture
  /\ lastFit = SquareFit
  /\ RecordChange(history, plate) = SquareHistory

\* C16: every profile point of the bottom region has a UV radius strictly
\* greater than maxUVRadius, the radius plus the whole arc of the rim; the
\* first bottom point, at x = radius, included
C16_BottomBeyondMaxUVRadius ==
  IsLathe =>
    LET geo == plate.geometry
    IN /\ geo.diameterUV = 2 * maxUVRadius
       /\ \A j \in 0..(NPoints(geo) - 1) :
            RegionOf(j) = "bottom" => geo.uvRadii[j + 1] > maxUVRadius

\* the first bottom point sits at x = radius, one margin beyond maxUVRadius
C16_Witness ==
  /\ IsLathe
  /\ pc = "idle"
  /\ LET geo == plate.geometry
         first == topSegments + rimSteps + 1
     IN /\ RegionOf(first) = "bottom"
        /\ RegionOf(first - 1) = "rim"
        /\ geo.points[first + 1].x = radius
        /\ geo.uvRadii[first + 1] = maxUVRadius + Fix(Rat(1, 10))

\* C18: on the square and the rectangular mesh every triangle is drawn with
\* the slot of its box face (0..5 for +X, -X, +Y, -Y, +Z, -Z), the pattern
\* material sits on slot 2 alone, the triangles drawn with it are exactly
\* those of the top (+Y) face, and the five other slots carry the base
\* finish; on the round mesh slot 0 carries the pattern and slot 1 the base
\* finish
C18_MaterialSlots ==
  pc = "draw" =>
    LET geo == loop.geo
        m == Materials(plate.shape)
        slot == loop.group.materialIndex
    IN /\ loop.material = m[slot + 1]
       /\ IF plate.shape = ROUND
          THEN m = <<glassTopMaterial, goldBackMaterial>>
          ELSE /\ Len(m) = 6
               /\ \A n \in 0..5 :
                    m[n + 1] = IF n = 2 THEN glassTopMaterial
                               ELSE goldBackMaterial
               /\ \A n \in 1..3 : BoxFaceOf(loop.verts[n]) = slot
               /\ loop.material = glassTopMaterial
                    <=> \A n \in 1..3 :
                          BoxPosition(geo, loop.verts[n]).y = geo.height \div 2

\* a triangle of the rectangular platter's top face, drawn with the pattern
C18_Witness ==
  /\ pc = "draw"
  /\ plate.shape = RECTANGULAR
  /\ loop.p > BoxGroupStart(2)
  /\ loop.group.materialIndex = 2
  /\ loop.material = glassTopMaterial
  /\ \A n \in 1..3 : BoxPosition(loop.geo, loop.verts[n]).y = thickness \div 2

\* the states SpecDraw starts from are states the session reaches: here the
\* rectangular platter, selected before the first mount
FirstSessionReached ==
  /\ pc = "idle"
  /\ shape = RECTANGULAR
  /\ plate = FirstPlate(shape)
  /\ topTexture = FirstTexture(shape)
  /\ lastFit = FirstFit(shape)
  /\ history = FirstHistory(shape)

\* C19: every vertex revolved from a bottom-region profile point is given a
\* UV outside the unit square: u or v is below 0 or above 1
C19_BottomUVOutsideUnitSquare ==
  pc = "uvLoop" /\ loop.i > 0 /\ RegionOf(loop.ring) = "bottom" =>
    \/ loop.uv.u < 0
    \/ loop.uv.u > Unit
    \/ loop.uv.v < 0
    \/ loop.uv.v > Unit

\* C20: for every vertex that takes the polar branch the recovered ringIndex
\* is the index of the profile point the vertex was revolved from, it lies
\* inside uvRadii, and the UV written is the polar UV of that point's radius
C20_RingIndexIsProfileIndex ==
  pc = "uvLoop" /\ loop.i > 0 /\ ~loop.planar =>
    /\ loop.ringIndex = loop.ring
    /\ loop.ringIndex >= 0
    /\ loop.ringIndex + 1 \in DOMAIN loop.geo.uvRadii
    /\ loop.uv = PolarUV(loop.geo, LathePosition(loop.geo, loop.i - 1),
                         loop.ring)

\* the last profile point (the bottom pole) at the last angular step
C20_Witness ==
  /\ pc = "uvLoop"
  /\ loop.i = PositionCount(loop.geo)
  /\ ~loop.planar
  /\ loop.ring = Len(loop.geo.uvRadii) - 1
  /\ loop.ringIndex = loop.ring

\* two vertices of the lathe are at the same position: they revolve equal
\* profile points by the same angle (step 0 and the last step coincide), or
\* the point lies on the axis
SamePosition(geo, k1, k2) ==
  LET p1 == geo.points[RingOf(geo, k1) + 1]
      p2 == geo.points[RingOf(geo, k2) + 1]
  IN /\ p1 = p2
     /\ \/ p1.x = 0
        \/ StepOf(geo, k1) % geo.segments = StepOf(geo, k2) % geo.segments

\* triangle t of the lathe's index buffer has the edge between k1 and k2
HasEdge(geo, t, k1, k2) ==
  \E n, m \in 1..3 :
    /\ n # m
    /\ SamePosition(geo, LatheIndex(geo, 3 * t + n - 1), k1)
    /\ SamePosition(geo, LatheIndex(geo, 3 * t + m - 1), k2)

\* how many triangles of the mesh share the edge between k1 and k2
TrianglesOnEdge(geo, k1, k2) ==
  Cardinality({t \in 0..((IndexCount(geo) \div 3) - 1) : HasEdge(geo, t, k1, k2)})

\* C21: the round mesh is closed: with vertices at one position taken as
\* one, each edge of each triangle drawn is shared by exactly two triangles
C21_RoundMeshWatertight ==
  pc = "draw" /\ plate.shape = ROUND =>
    \A n \in 1..3 :
      TrianglesOnEdge(loop.geo, loop.verts[n], loop.verts[(n % 3) + 1]) = 2

\* one axis of a texture transform is a centred crop: 0 < scale <= 1,
\* 0 <= offset < 1/2 and scale + 2 * offset = 1
CentredCrop(scale, offset) ==
  /\ NumGt(scale, Num(0))
  /\ ~NumGt(scale, Num(1))
  /\ ~NumGt(Num(0), offset)
  /\ NumGt(Rat(1, 2), offset)
  /\ NumAdd(scale, NumMul(Num(2), offset)) = Num(1)

\* C22: for positive aspects the cover fit crops at most one axis, centred:
\* both axes are centred crops, one of them is the whole axis (scale 1,
\* offset 0), and scaleU / scaleV = plateAspect / imgAspect
C22_CoverFitCentredCrop ==
  pc = "fitted" =>
    LET scaleU == topTexture.repeat[1]
        scaleV == topTexture.repeat[2]
        offsetU == topTexture.offset[1]
        offsetV == topTexture.offset[2]
    IN /\ CentredCrop(scaleU, offsetU)
       /\ CentredCrop(scaleV, offsetV)
       /\ \/ scaleU = Num(1) /\ offsetU = Num(0)
          \/ scaleV = Num(1) /\ offsetV = Num(0)
       /\ NumDiv(scaleU, scaleV)
            = NumDiv(lastFit.plateAspect, lastFit.imgAspect)

\* a 3:2 image on a 0.9 plate: three fifths of the width, a fifth in
C22_Witness ==
  /\ pc = "fitted"
  /\ lastFit.plateAspect = Rat(9, 10)
  /\ lastFit.imgAspect = Rat(3, 2)
  /\ topTexture.repeat = <<Rat(3, 5), Num(1)>>
  /\ topTexture.offset = <<Rat(1, 5), Num(0)>>

\* the vertex of the box's top face that stands at the (x, z) of v
TopVertexAt(geo, v) ==
  LET ix == CHOOSE n \in 0..segmentsX : GridCoord(n, geo.width, segmentsX) = v.x
      iy == CHOOSE n \in 0..segmentsZ : GridCoord(n, geo.depth, segmentsZ) = v.z
  IN BoxVertexStart(2) + ix + (segmentsX + 1) * iy

\* C23: the slump loop moves a vertex in y alone and leaves a vertex within
\* flatRadius where it is; the top-face vertex at the same (x, z) is lifted
\* by the same amount, so the vertical distance between the two, the
\* thickness of the plate there, is what it was in the box
C23_SlumpKeepsThickness ==
  pc = "slumpLoop" /\ loop.i > 0 =>
    LET geo == loop.geo
        top == BoxPosition(geo, TopVertexAt(geo, loop.before))
    IN /\ loop.after.x = loop.before.x
       /\ loop.after.z = loop.before.z
       /\ loop.dist <= geo.flatRadius => loop.after = loop.before
       /\ top.x = loop.before.x /\ top.z = loop.before.z
       /\ top.y = geo.height \div 2
       /\ SlumpVertex(geo, top).y - loop.after.y = top.y - loop.before.y

\* a corner vertex of the bottom face, lifted with the top corner above it
C23_Witness ==
  /\ pc = "slumpLoop"
  /\ shape = SQUARE
  /\ loop.dist = CornerDist(loop.geo)
  /\ loop.before.y = -(thickness \div 2)
  /\ loop.after.y > loop.before.y
  /\ SlumpVertex(loop.geo, BoxPosition(loop.geo,
                              TopVertexAt(loop.geo, loop.before))).y
       - loop.after.y = thickness

\* C24: the UV radii grow strictly along the whole profile, through the
\* top, the rim and the bottom and across both region boundaries
C24_UVRadiiStrictlyIncreasing ==
  IsLathe =>
    LET geo == plate.geometry
    IN \A j \in 1..(Len(geo.uvRadii) - 1) : geo.uvRadii[j] < geo.uvRadii[j + 1]

\* both region boundaries: top to rim and rim to bottom
C24_Witness ==
  /\ IsLathe
  /\ pc = "effects"
  /\ LET geo == plate.geometry
         lastTop == topSegments + 1
         lastRim == topSegments + rimSteps + 1
     IN /\ Len(geo.uvRadii) = lastRim + bottomSegments + 1
        /\ geo.uvRadii[lastTop] = radius
        /\ geo.uvRadii[lastTop + 1] > radius
        /\ geo.uvRadii[lastRim] = maxUVRadius
        /\ geo.uvRadii[lastRim + 1] > maxUVRadius

\* C25: for every vertex of the box the normalised distance lies in [0, 1]
\* and the lift added is at most liftHeight
C25_LiftAtMostLiftHeight ==
  pc = "slumpLoop" /\ loop.i > 0 =>
    /\ ~NumGt(Num(0), loop.normalizedDist)
    /\ ~NumGt(loop.normalizedDist, Num(1))
    /\ ~NumGt(loop.lift, Rat(loop.geo.liftHeight, Unit))

====
